---------------------------- MODULE Spec2Model ----------------------------
(***************************************************************************)
(* Model of the icon scripts of deep-talk:                                 *)
(*   scripts/generate-icns-linux.py  create_icns_from_pngs  (ICNS writer)  *)
(*   scripts/generate-icons.py       generate_icns          (iconset)      *)
(* The state is the part of the file system the two scripts share (the     *)
(* icon.iconset directory and icon.icns) plus the locals of the script     *)
(* that is running.  The scripts are run by hand, one after the other.     *)
(*                                                                         *)
(* Bytes are integers 0..255, a byte string is a sequence of bytes.  An    *)
(* optional value is <<>> (None / no such file) or <<v>>.  A file name of  *)
(* the iconset directory, icon_{s}x{s}{suffix}.png, is the pair            *)
(* <<s, suffix>>.                                                          *)
(***************************************************************************)
EXTENDS Integers, Sequences, FiniteSets

VARIABLES
    iconset_dir,   \* os.path.exists(iconset_path)
    iconset,       \* the files of the iconset directory: name -> bytes
    icns,          \* icon.icns: <<>> when it does not exist, else <<bytes>>
    pc,            \* position of the running script, "idle" between runs
    icon_data,     \* create_icns_from_pngs: list of (type, entry_size, data)
    total_size,    \* create_icns_from_pngs: total_size
    opened,        \* create_icns_from_pngs: the PNG files opened, in order
    raised,        \* which statement raised, "" when none did
    iconutil,      \* generate_icns: "", "absent", "created" or "failed"
    pre_icns,      \* history: icon.icns when the running script started
    last           \* history: <<>> or <<[input, output]>> of the last
                   \* completed run of create_icns_from_pngs

vars == <<iconset_dir, iconset, icns, pc, icon_data, total_size, opened,
          raised, iconutil, pre_icns, last>>

---------------------------------------------------------------------------
(* Bounds of the model *)

\* at most this many files are in the iconset directory initially
MaxFiles == 2

---------------------------------------------------------------------------
(* File contents the scripts find when they start *)

\* b"PNG256DATA" and b"PNG512DATA"
PNG256DATA == <<80, 78, 71, 50, 53, 54, 68, 65, 84, 65>>
PNG512DATA == <<80, 78, 71, 53, 49, 50, 68, 65, 84, 65>>

\* a payload long enough for entry_size to need two bytes (258 = 0x0102)
BigPayload == [i \in 1..250 |-> 7]

\* the file contents the initial file system draws from
SamplePayloads == {<<>>, PNG256DATA, PNG512DATA, BigPayload}

\* an icon.icns left by something else before the scripts run
StaleIcns == <<105, 99, 110, 115, 0, 0, 0, 9, 1>>

---------------------------------------------------------------------------
(* generate-icns-linux.py *)

\* b'icns'
icns_header == <<105, 99, 110, 115>>

icon_types == <<
    <<<<105, 99, 112, 52>>, 16>>,
    <<<<105, 99, 112, 53>>, 32>>,
    <<<<105, 99, 112, 54>>, 64>>,
    <<<<105, 99, 48, 55>>, 128>>,
    <<<<105, 99, 48, 56>>, 256>>,
    <<<<105, 99, 48, 57>>, 512>>,
    <<<<105, 99, 49, 48>>, 1024>> >>

\* fault: the @2x file is tried first
png_files_retina_first(size) == << <<size, "@2x">>, <<size, "">> >>

\* png_files of one size, in the order they are tried
png_files(size) == << <<size, "">>, <<size, "@2x">> >>

\* every name the writer can look for
Candidates == {png_files(icon_types[i][2])[j] : i \in 1..Len(icon_types), j \in 1..2}

\* os.path.exists(os.path.join(iconset_path, png_file))
path_exists(dir_exists, dir, png_file) == dir_exists /\ png_file \in DOMAIN dir

\* fault: an empty file is passed over and the next candidate is tried
RECURSIVE first_nonempty(_, _, _, _)
first_nonempty(dir_exists, dir, files, j) ==
    IF j > Len(files) THEN <<>>
    ELSE IF dir_exists /\ files[j] \in DOMAIN dir /\ dir[files[j]] # <<>>
         THEN <<files[j]>>
    ELSE first_nonempty(dir_exists, dir, files, j + 1)

\* the inner loop: the first candidate that exists is opened and read, the
\* others are not looked at.  <<>> when none exists, else <<name>>.
RECURSIVE first_existing(_, _, _, _)
first_existing(dir_exists, dir, files, j) ==
    IF j > Len(files) THEN <<>>
    ELSE IF path_exists(dir_exists, dir, files[j]) THEN <<files[j]>>
    ELSE first_existing(dir_exists, dir, files, j + 1)

\* struct.pack('>I', v) raises struct.error unless 0 <= v < 2^32
pack_ok(v) == v >= 0 /\ (v \div 65536) < 65536

\* fault: '<I', little-endian
pack_u32le(v) ==
    << v % 256, (v \div 256) % 256, (v \div 65536) % 256, (v \div 16777216) % 256 >>

\* struct.pack('>I', v)
pack_u32be(v) ==
    << (v \div 16777216) % 256, (v \div 65536) % 256, (v \div 256) % 256, v % 256 >>

\* fault: `if png_data is not None:`
is_not_none(png_data) == png_data # <<>>

\* `if png_data:`: neither None nor b''
truthy(png_data) == png_data # <<>> /\ Len(png_data[1]) > 0

\* fault: the 8 bytes of type and size are not counted
entry_size_data_only(png_data) == Len(png_data)

\* line 46: 4 bytes type + 4 bytes size + data
entry_size_of(png_data) == 8 + Len(png_data)

\* the loop over icon_types from index i on, with the locals it has built
RECURSIVE collect(_, _, _, _, _, _)
collect(dir_exists, dir, i, data, total, reads) ==
    IF i > Len(icon_types)
    THEN [icon_data |-> data, total_size |-> total, opened |-> reads]
    ELSE LET icon_type == icon_types[i][1]
             size == icon_types[i][2]
             hit == first_existing(dir_exists, dir, png_files(size), 1)
             png_data == IF hit = <<>> THEN <<>> ELSE <<dir[hit[1]]>>
             entry_size == entry_size_of(png_data[1])
         IN IF truthy(png_data)
            THEN collect(dir_exists, dir, i + 1,
                         Append(data, <<icon_type, entry_size, png_data[1]>>),
                         total + entry_size, reads \o hit)
            ELSE collect(dir_exists, dir, i + 1, data, total, reads \o hit)

\* the bytes of the entries written by the second loop
RECURSIVE write_icons(_, _)
write_icons(data, k) ==
    IF k > Len(data) THEN <<>>
    ELSE data[k][1] \o pack_u32be(data[k][2]) \o data[k][3] \o write_icons(data, k + 1)

\* fault: the length written in the header leaves the header out
written_entries_length(data, total) ==
    icns_header \o pack_u32be(total - 8) \o write_icons(data, 1)

\* everything written to f between open and close
written(data, total) == icns_header \o pack_u32be(total) \o write_icons(data, 1)

\* fault: open(output_path, 'ab'): what the file holds is kept
open_ab(file) == IF file = <<>> THEN << <<>> >> ELSE file

\* open(output_path, 'wb'): the file exists and is empty
open_wb(file) == << <<>> >>

\* f.write(b) on the open file
f_write(file, b) == <<file[1] \o b>>

---------------------------------------------------------------------------
(* generate-icons.py, generate_icns *)

\* sizes: (pixel size, file name)
sizes == <<
    <<16, <<16, "">> >>,
    <<32, <<16, "@2x">> >>,
    <<32, <<32, "">> >>,
    <<64, <<32, "@2x">> >>,
    <<128, <<128, "">> >>,
    <<256, <<128, "@2x">> >>,
    <<256, <<256, "">> >>,
    <<512, <<256, "@2x">> >>,
    <<512, <<512, "">> >>,
    <<1024, <<512, "@2x">> >> >>

\* base_icon.resize((size, size)) saved as PNG: the PNG signature and the
\* width, which stand for an encoding that is never empty and differs by size
resized_png(size) ==
    <<137, 80, 78, 71, 13, 10, 26, 10, (size \div 256) % 256, size % 256>>

\* resized.save(path, 'PNG') on a directory
save_png(dir, name, size) ==
    [n \in DOMAIN dir \cup {name} |-> IF n = name THEN resized_png(size) ELSE dir[n]]

\* the loop over sizes from index k on
RECURSIVE save_all(_, _)
save_all(dir, k) ==
    IF k > Len(sizes) THEN dir
    ELSE save_all(save_png(dir, sizes[k][2], sizes[k][1]), k + 1)

\* what iconutil -c icns writes to icon.icns when it succeeds
iconutil_output == <<105, 99, 110, 115, 0, 0, 0, 16, 84, 79, 67, 32, 0, 0, 0, 8>>

\* a directory with no file
EmptyDir == [n \in {} |-> <<>>]

---------------------------------------------------------------------------
(* The state machine *)

NoLocals ==
    /\ icon_data' = <<>>
    /\ total_size' = 0
    /\ opened' = <<>>
    /\ raised' = ""
    /\ iconutil' = ""

InitialDirs ==
    UNION {[S -> SamplePayloads] :
             S \in {T \in SUBSET Candidates : Cardinality(T) <= MaxFiles}}

Init ==
    /\ iconset \in InitialDirs
    /\ iconset_dir \in {d \in BOOLEAN : DOMAIN iconset # {} => d}
    /\ icns \in {<<>>, <<StaleIcns>>}
    /\ pc = "idle"
    /\ icon_data = <<>>
    /\ total_size = 0
    /\ opened = <<>>
    /\ raised = ""
    /\ iconutil = ""
    /\ pre_icns = <<>>
    /\ last = <<>>

\* python3 generate-icns-linux.py: lines 10-27
StartCreate ==
    /\ pc = "idle"
    /\ pc' = "collect"
    /\ pre_icns' = icns
    /\ icon_data' = <<>>
    /\ total_size' = 8
    /\ UNCHANGED <<iconset_dir, iconset, icns, opened, raised, iconutil, last>>

\* fault: the output file is opened before the PNGs are read
CollectAfterOpen ==
    /\ pc = "collect"
    /\ icns' = open_wb(icns)
    /\ LET r == collect(iconset_dir, iconset, 1, icon_data, total_size, <<>>)
       IN \/ /\ icon_data' = r.icon_data
             /\ total_size' = r.total_size
             /\ opened' = r.opened
             /\ pc' = "open"
             /\ UNCHANGED raised
          \/ /\ r.opened # <<>>
             /\ raised' = "read"
             /\ pc' = "raised"
             /\ UNCHANGED <<icon_data, total_size, opened>>
    /\ UNCHANGED <<iconset_dir, iconset, iconutil, pre_icns, last>>

\* lines 29-48: every PNG is read; open() or read() of a file that exists
\* may raise, which ends the call
CollectIconData ==
    /\ pc = "collect"
    /\ LET r == collect(iconset_dir, iconset, 1, icon_data, total_size, <<>>)
       IN \/ /\ icon_data' = r.icon_data
             /\ total_size' = r.total_size
             /\ opened' = r.opened
             /\ pc' = "open"
             /\ UNCHANGED raised
          \/ /\ r.opened # <<>>
             /\ raised' = "read"
             /\ pc' = "raised"
             /\ UNCHANGED <<icon_data, total_size, opened>>
    /\ UNCHANGED <<iconset_dir, iconset, icns, iconutil, pre_icns, last>>

\* line 51: open(output_path, 'wb'), which may raise
OpenOutput ==
    /\ pc = "open"
    /\ \/ /\ icns' = open_wb(icns)
          /\ pc' = "write"
          /\ UNCHANGED raised
       \/ /\ raised' = "open"
          /\ pc' = "raised"
          /\ UNCHANGED icns
    /\ UNCHANGED <<iconset_dir, iconset, icon_data, total_size, opened,
                   iconutil, pre_icns, last>>

\* lines 53-62: the header and the entries are written, the file is closed
\* (a write that fails for lack of space is outside the model; struct.pack
\* raising on a total of 2^32 or more leaves the 4 header bytes behind)
WriteIcns ==
    /\ pc = "write"
    /\ IF pack_ok(total_size)
       THEN /\ icns' = f_write(icns, written(icon_data, total_size))
            /\ pc' = "done"
            /\ UNCHANGED raised
       ELSE /\ icns' = f_write(icns, icns_header)
            /\ raised' = "pack"
            /\ pc' = "raised"
    /\ UNCHANGED <<iconset_dir, iconset, icon_data, total_size, opened,
                   iconutil, pre_icns, last>>

\* the script ends
ReturnCreate ==
    /\ pc \in {"done", "raised"}
    /\ pc' = "idle"
    /\ last' = IF pc = "done"
               THEN <<[dir |-> iconset_dir, files |-> iconset, output |-> icns[1]]>>
               ELSE last
    /\ pre_icns' = <<>>
    /\ NoLocals
    /\ UNCHANGED <<iconset_dir, iconset, icns>>

\* generate_icns is called: line 149
StartGenerate ==
    /\ pc = "idle"
    /\ pc' = "g_makedirs"
    /\ pre_icns' = icns
    /\ UNCHANGED <<iconset_dir, iconset, icns, icon_data, total_size, opened,
                   raised, iconutil, last>>

\* line 150: os.makedirs(iconset_path, exist_ok=True)
Makedirs ==
    /\ pc = "g_makedirs"
    /\ iconset_dir' = TRUE
    /\ pc' = "g_save"
    /\ UNCHANGED <<iconset, icns, icon_data, total_size, opened, raised,
                   iconutil, pre_icns, last>>

\* lines 166-168
SavePngs ==
    /\ pc = "g_save"
    /\ iconset' = save_all(iconset, 1)
    /\ pc' = "g_iconutil"
    /\ UNCHANGED <<iconset_dir, icns, icon_data, total_size, opened, raised,
                   iconutil, pre_icns, last>>

\* lines 171-180: iconutil is run when /usr/bin/iconutil exists; its exit
\* status is not looked at
RunIconutil ==
    /\ pc = "g_iconutil"
    /\ \/ /\ iconutil' = "absent"
          /\ UNCHANGED icns
       \/ /\ iconutil' = "created"
          /\ icns' = <<iconutil_output>>
       \/ /\ iconutil' = "failed"
          /\ UNCHANGED icns
    /\ pc' = "g_cleanup"
    /\ UNCHANGED <<iconset_dir, iconset, icon_data, total_size, opened, raised,
                   pre_icns, last>>

\* lines 183-185
CleanUp ==
    /\ pc = "g_cleanup"
    /\ IF icns # <<>>
       THEN /\ iconset_dir' = FALSE
            /\ iconset' = EmptyDir
       ELSE UNCHANGED <<iconset_dir, iconset>>
    /\ pc' = "g_done"
    /\ UNCHANGED <<icns, icon_data, total_size, opened, raised, iconutil,
                   pre_icns, last>>

\* generate_icns returns
ReturnGenerate ==
    /\ pc = "g_done"
    /\ pc' = "idle"
    /\ pre_icns' = <<>>
    /\ NoLocals
    /\ UNCHANGED <<iconset_dir, iconset, icns, last>>

Next ==
    \/ StartCreate
    \/ CollectIconData
    \/ OpenOutput
    \/ WriteIcns
    \/ ReturnCreate
    \/ StartGenerate
    \/ Makedirs
    \/ SavePngs
    \/ RunIconutil
    \/ CleanUp
    \/ ReturnGenerate

Spec == Init /\ [][Next]_vars

---------------------------------------------------------------------------
(* Vocabulary of the properties.  It is written from the file format and   *)
(* the look-up rule, not from the operators above, so that a property      *)
(* compares the code with something other than itself.                     *)

\* the type table of the format: tag -> nominal pixel size, in order
TagTable == <<
    [tag |-> <<105, 99, 112, 52>>, px |-> 16],
    [tag |-> <<105, 99, 112, 53>>, px |-> 32],
    [tag |-> <<105, 99, 112, 54>>, px |-> 64],
    [tag |-> <<105, 99, 48, 55>>, px |-> 128],
    [tag |-> <<105, 99, 48, 56>>, px |-> 256],
    [tag |-> <<105, 99, 48, 57>>, px |-> 512],
    [tag |-> <<105, 99, 49, 48>>, px |-> 1024] >>

Plain(px) == <<px, "">>
Retina(px) == <<px, "@2x">>
Exists(name) == iconset_dir /\ name \in DOMAIN iconset

\* the payload of a pixel size: icon_{s}x{s}.png when it exists, else
\* icon_{s}x{s}@2x.png when that exists; empty when there is none
Payload(px) ==
    IF Exists(Plain(px)) THEN iconset[Plain(px)]
    ELSE IF Exists(Retina(px)) THEN iconset[Retina(px)]
    ELSE <<>>

Resolves(px) == Payload(px) # <<>>

IsResolvedRow(row) == Resolves(row.px)

\* the (tag, pixel size, payload) tuples a correct file holds, in order
ExpectedTuples ==
    LET rows == SelectSeq(TagTable, IsResolvedRow)
    IN [k \in 1..Len(rows) |-> <<rows[k].tag, rows[k].px, Payload(rows[k].px)>>]

\* a 4-byte big-endian unsigned integer, decoded
be_u32(b) == ((b[1] * 256 + b[2]) * 256 + b[3]) * 256 + b[4]

IsBytes(b) == \A k \in 1..Len(b) : b[k] \in 0..255

PxOfTag(tag) ==
    IF \E k \in 1..Len(TagTable) : TagTable[k].tag = tag
    THEN TagTable[CHOOSE k \in 1..Len(TagTable) : TagTable[k].tag = tag].px
    ELSE -1

Malformed == << <<<<>>, -1, <<>>>> >>

\* an ICNS reader: the blocks of bytes[off+1 .. end], each a tag, a length
\* and length - 8 bytes of payload
RECURSIVE parse_blocks(_, _, _)
parse_blocks(bytes, off, end) ==
    IF off = end THEN <<>>
    ELSE IF off + 8 > end THEN Malformed
    ELSE LET tag == SubSeq(bytes, off + 1, off + 4)
             len == be_u32(SubSeq(bytes, off + 5, off + 8))
         IN IF len < 8 \/ off + len > end THEN Malformed
            ELSE <<<<tag, PxOfTag(tag), SubSeq(bytes, off + 9, off + len)>>>>
                 \o parse_blocks(bytes, off + len, end)

parse_icns(bytes) ==
    IF Len(bytes) < 8 \/ ~IsBytes(bytes) THEN Malformed
    ELSE IF SubSeq(bytes, 1, 4) # <<105, 99, 110, 115>> THEN Malformed
    ELSE IF be_u32(SubSeq(bytes, 5, 8)) # Len(bytes) THEN Malformed
    ELSE parse_blocks(bytes, 8, Len(bytes))

RECURSIVE SumEntries(_, _)
SumEntries(entries, k) ==
    IF k > Len(entries) THEN 0
    ELSE 8 + Len(entries[k][3]) + SumEntries(entries, k + 1)

Created == pc = "done"
NoCandidate == \A k \in 1..Len(TagTable) :
                  ~Exists(Plain(TagTable[k].px)) /\ ~Exists(Retina(TagTable[k].px))

TagIndex(tag) == CHOOSE k \in 1..Len(TagTable) : TagTable[k].tag = tag

\* the file described by the tuples, checked block by block from offset off
RECURSIVE BlocksMatch(_, _, _, _)
BlocksMatch(out, off, tuples, k) ==
    IF k > Len(tuples) THEN off = Len(out)
    ELSE LET tag == tuples[k][1]
             payload == tuples[k][3]
             next == off + 8 + Len(payload)
         IN /\ Len(out) >= next
            /\ SubSeq(out, off + 1, off + 4) = tag
            /\ be_u32(SubSeq(out, off + 5, off + 8)) = 8 + Len(payload)
            /\ SubSeq(out, off + 9, next) = payload
            /\ BlocksMatch(out, next, tuples, k + 1)

\* an iconset holding icon_256x256.png and icon_512x512.png only
ExampleDir ==
    [n \in {Plain(256), Plain(512)} |->
        IF n = Plain(256) THEN PNG256DATA ELSE PNG512DATA]

Example44 ==
    <<105, 99, 110, 115, 0, 0, 0, 44>>
    \o <<105, 99, 48, 56, 0, 0, 0, 18>> \o PNG256DATA
    \o <<105, 99, 48, 57, 0, 0, 0, 18>> \o PNG512DATA

\* the iconset that generate_icns leaves when it starts from nothing
TenFiles == save_all(EmptyDir, 1)

SameInputsAsLast ==
    /\ last # <<>>
    /\ last[1].dir = iconset_dir
    /\ last[1].files = iconset

HasEntry(tag) == \E k \in 1..Len(icon_data) : icon_data[k][1] = tag
EntryData(tag) == icon_data[CHOOSE k \in 1..Len(icon_data) : icon_data[k][1] = tag][3]
Opened == {opened[k] : k \in 1..Len(opened)}

---------------------------------------------------------------------------
(* Properties *)

\* C1: when no candidate file exists in the iconset directory, the call
\* ends with an error and icon.icns is neither created nor overwritten.
C1_EmptyInputSignalled ==
    (pc \in {"done", "raised"} /\ NoCandidate)
        => (pc = "raised" /\ icns = pre_icns)

\* C2: the totalLength stored at offset 4 is 8 plus the sum of
\* 8 + len(payload) over the emitted entries, and is the length of the file.
C2_TotalLength ==
    Created =>
        LET out == icns[1]
        IN /\ Len(out) >= 8
           /\ be_u32(SubSeq(out, 5, 8)) = 8 + SumEntries(icon_data, 1)
           /\ be_u32(SubSeq(out, 5, 8)) = Len(out)

C2_Witness ==
    /\ Created
    /\ Len(icon_data) >= 2
    /\ Len(icns[1]) > 255

\* C3: the entries of the file are in table order, no tag occurs twice, a
\* tag has an entry exactly when its PNG resolved, and a call fails only on
\* an I/O error, never because a PNG is missing.
C3_TableOrder ==
    /\ Created =>
         LET E == parse_icns(icns[1])
         IN /\ \A k \in 1..Len(E) : E[k][2] # -1
            /\ \A j, k \in 1..Len(E) :
                  j < k => TagIndex(E[j][1]) < TagIndex(E[k][1])
            /\ \A r \in 1..Len(TagTable) :
                  (\E k \in 1..Len(E) : E[k][1] = TagTable[r].tag)
                      <=> Resolves(TagTable[r].px)
    /\ pc = "raised" =>
         /\ raised \in {"read", "open"}
         /\ raised = "read" => ~NoCandidate

C3_Witness ==
    /\ Created
    /\ Len(icon_data) = 6
    /\ icon_data[6][1] = TagTable[7].tag
    /\ Exists(Plain(64)) /\ ~Resolves(64)

\* C4: the file is the reference serialization: "icns", totalLength, then
\* for each resolved variant in order its tag, 8 + payload length, and the
\* payload; two 10-byte payloads for ic08 and ic09 give the 44-byte file.
C4_ReferenceBytes ==
    Created =>
        LET out == icns[1]
        IN /\ Len(out) >= 8
           /\ IsBytes(out)
           /\ SubSeq(out, 1, 4) = <<105, 99, 110, 115>>
           /\ be_u32(SubSeq(out, 5, 8)) = 8 + SumEntries(ExpectedTuples, 1)
           /\ BlocksMatch(out, 8, ExpectedTuples, 1)
           /\ (iconset = ExampleDir => out = Example44)

C4_Witness ==
    /\ Created
    /\ iconset = ExampleDir
    /\ Len(icns[1]) = 44

\* C5: reading the file back as header + blocks gives exactly the resolved
\* (tag, pixel size, payload) tuples, in order, with nothing left over.
C5_RoundTrip ==
    Created => parse_icns(icns[1]) = ExpectedTuples

C5_Witness ==
    /\ Created
    /\ Len(ExpectedTuples) >= 5
    /\ \E k \in 1..Len(ExpectedTuples) : ExpectedTuples[k][3] = BigPayload
    /\ \E r \in 1..Len(TagTable) : ~Resolves(TagTable[r].px)

\* C6: a run on the iconset contents of the previous completed run writes
\* the same bytes, whatever icon.icns held when it started.
C6_Idempotent ==
    (Created /\ SameInputsAsLast) => icns[1] = last[1].output

C6_Witness ==
    /\ Created
    /\ SameInputsAsLast
    /\ Len(icon_data) >= 1
    /\ pre_icns = <<last[1].output>>

C6_WitnessOtherFile ==
    /\ Created
    /\ SameInputsAsLast
    /\ pre_icns # <<last[1].output>>

\* C7: when iconutil did not create icon.icns, the iconset directory and
\* the ten files written to it still exist when generate_icns returns.
C7_IconsetKept ==
    (pc = "g_done" /\ iconutil \in {"absent", "failed"})
        => /\ iconset_dir
           /\ \A k \in 1..Len(sizes) :
                 /\ sizes[k][2] \in DOMAIN iconset
                 /\ iconset[sizes[k][2]] = resized_png(sizes[k][1])

\* C8: per table entry at most one file is read: icon_{s}x{s}.png when it
\* exists, else icon_{s}x{s}@2x.png when it exists; the payload is that
\* file's content, and an empty file gives no variant (and no second read).
C8_Resolver ==
    pc \in {"open", "write", "done"} =>
        /\ Len(opened) = Cardinality(Opened)
        /\ \A r \in 1..Len(TagTable) :
              LET px == TagTable[r].px
                  tag == TagTable[r].tag
                  read == Opened \cap {Plain(px), Retina(px)}
              IN /\ Cardinality(read) <= 1
                 /\ Exists(Plain(px)) => read = {Plain(px)}
                 /\ (~Exists(Plain(px)) /\ Exists(Retina(px)))
                        => read = {Retina(px)}
                 /\ (~Exists(Plain(px)) /\ ~Exists(Retina(px))) => read = {}
                 /\ \A n \in read :
                       /\ HasEntry(tag) <=> iconset[n] # <<>>
                       /\ HasEntry(tag) => EntryData(tag) = iconset[n]
                 /\ read = {} => ~HasEntry(tag)

C8_Witness ==
    /\ pc = "open"
    /\ Exists(Plain(256)) /\ iconset[Plain(256)] = <<>>
    /\ Exists(Retina(256)) /\ iconset[Retina(256)] # <<>>
    /\ ~HasEntry(TagTable[5].tag)
    /\ opened = <<Plain(256)>>

\* C9: on the ten files generate_icns writes, the file holds icp4, icp5,
\* ic07, ic08 and ic09, in that order, each with the bytes of
\* icon_{s}x{s}.png; icp6 and ic10 are left out.
C9_GeneratedIconset ==
    (Created /\ iconset_dir /\ iconset = TenFiles) =>
        /\ parse_icns(icns[1]) =
              << <<TagTable[1].tag, 16, iconset[Plain(16)]>>,
                 <<TagTable[2].tag, 32, iconset[Plain(32)]>>,
                 <<TagTable[4].tag, 128, iconset[Plain(128)]>>,
                 <<TagTable[5].tag, 256, iconset[Plain(256)]>>,
                 <<TagTable[6].tag, 512, iconset[Plain(512)]>> >>
        /\ \A px \in {16, 32, 128, 256, 512} :
              iconset[Plain(px)] # iconset[Retina(px)]

C9_Witness ==
    /\ Created
    /\ iconset_dir
    /\ iconset = TenFiles
    /\ Len(icon_data) = 5

\* C10: every PNG is read before icon.icns is opened: while the PNGs are
\* read, and when a read raised, icon.icns is what it was before the call.
C10_ReadsBeforeOpen ==
    (pc = "collect" \/ (pc = "raised" /\ raised = "read"))
        => icns = pre_icns

C10_Witness ==
    /\ pc = "raised"
    /\ raised = "read"
    /\ icns = <<StaleIcns>>

====
